---- MODULE Spec2Model ----
(***************************************************************************)
(* Model of the lovable-math-tutor backend: the three edge functions       *)
(* evaluate-answer, get-hint and process-document, the tables they write   *)
(* (student_answers, documents, questions), the client calls that create   *)
(* the rows they work on, and the QuestionCard component that submits      *)
(* answers, asks for hints and shows the results.                          *)
(*                                                                         *)
(* Strings the code inspects (question texts, document URLs) are tuples of *)
(* one-character strings, so that toLowerCase / includes / endsWith are    *)
(* computed the way the code computes them.  Service message contents are  *)
(* tuples of lexical tokens (code fence, language tag, whitespace, a JSON  *)
(* value, other text) on which trim / startsWith / slice / JSON.parse are  *)
(* computed.  JavaScript values are written as strings: "true", "false",   *)
(* "null", "undefined", or the text itself.                                *)
(***************************************************************************)
EXTENDS Integers, Sequences, FiniteSets, TLC

VARIABLES
    answers,     \* table student_answers: row id = index
    ev,          \* evaluate-answer: one invocation per isolate slot
    hn,          \* get-hint: one invocation per isolate slot
    documents,   \* table documents: row id = index
    questions,   \* table questions, in insertion order
    pd,          \* process-document invocation
    pdRuns,      \* process-document invocations so far
    card,        \* one mounted QuestionCard: its props and React state
    px,          \* the evaluation parser applied to one payload, plain and wrapped
    upload,      \* the DocumentUpload component at work on one file
    rls,         \* one API caller: its session and the rows its selects returned
    cls          \* the two hasFigure classifiers applied to one text

vars == <<answers, ev, hn, documents, questions, pd, pdRuns, card, px, upload, rls, cls>>

-----------------------------------------------------------------------------
(* Bounds of the model *)

\* rows the client may insert in student_answers
MaxAnswers == 1

\* items in one extraction result of the OCR service
MaxQuestions == 3

\* rows the client may insert in documents
MaxDocuments == 1

\* invocations of process-document per behaviour
MaxProcessRuns == 2

-----------------------------------------------------------------------------
(* JavaScript string operations on tuples of characters *)

UpperCase == <<"A","B","C","D","E","F","G","H","I","J","K","L","M","N","O","P","Q","R","S","T","U","V","W","X","Y","Z">>
LowerCase == <<"a","b","c","d","e","f","g","h","i","j","k","l","m","n","o","p","q","r","s","t","u","v","w","x","y","z">>

toLowerCase(s) ==
    [i \in DOMAIN s |->
        IF \E k \in DOMAIN UpperCase : UpperCase[k] = s[i]
        THEN LowerCase[CHOOSE k \in DOMAIN UpperCase : UpperCase[k] = s[i]]
        ELSE s[i]]

includes(s, sub) ==
    \E i \in 0..(Len(s) - Len(sub)) : SubSeq(s, i + 1, i + Len(sub)) = sub

endsWith(s, suf) ==
    /\ Len(s) >= Len(suf)
    /\ SubSeq(s, Len(s) - Len(suf) + 1, Len(s)) = suf

startsWith(s, pre) ==
    /\ Len(s) >= Len(pre)
    /\ SubSeq(s, 1, Len(pre)) = pre

\* JavaScript truthiness of a value written as a string
Truthy(v) == v \notin {"false", "null", "undefined", ""}

\* JavaScript truthiness of an optional string (undefined, null and "" are falsy)
TruthyUrl(u) == u.present /\ u.s # <<>>

-----------------------------------------------------------------------------
(* Inputs: question texts, with whether a reader finds a visual-reference  *)
(* keyword in them (any letter case)                                       *)

QuestionTexts == {
    [s |-> <<"s","o","l","v","e"," ","x">>,                              kw |-> FALSE],
    [s |-> <<"a"," ","f","i","g">>,                                      kw |-> FALSE],
    [s |-> <<"S","e","e"," ","F","i","g","u","r","e"," ","1">>,          kw |-> TRUE],
    [s |-> <<"G","R","A","P","H"," ","y">>,                              kw |-> TRUE],
    [s |-> <<"[","S","e","e"," ","f","i","g","u","r","e","]"," ","y">>,  kw |-> TRUE],
    [s |-> <<"p","i","e"," ","c","h","a","r","t">>,                      kw |-> TRUE],
    [s |-> <<"a"," ","D","i","a","g","r","a","m">>,                      kw |-> TRUE],
    [s |-> <<"s","t","a","b","l","e">>,                                  kw |-> TRUE] }

\* Document references: absent, or a URL; kind is what the URL names
NoUrl == [present |-> FALSE, s |-> <<>>]

DocumentUrls == {
    [url |-> NoUrl,                                                       kind |-> "absent"],
    [url |-> [present |-> TRUE, s |-> <<>>],                              kind |-> "absent"],
    [url |-> [present |-> TRUE, s |-> <<"a",".","p","n","g">>],           kind |-> "image"],
    [url |-> [present |-> TRUE, s |-> <<"a",".","p","d","f",".","j","p","g">>], kind |-> "image"],
    [url |-> [present |-> TRUE, s |-> <<"a",".","p","d","f">>],           kind |-> "pdf"],
    [url |-> [present |-> TRUE, s |-> <<"B",".","P","D","F">>],           kind |-> "pdf"] }

HasKeyword(text) == (CHOOSE t \in QuestionTexts : t.s = text).kw
KindOf(url) == (CHOOSE d \in DocumentUrls : d.url = url).kind

-----------------------------------------------------------------------------
(* The AI gateway: what one chat-completions call may answer *)

\* JSON values the service may put in the message content, by token name
JsonValue(tok) ==
    CASE tok = "vTrue"      -> [kind |-> "object", cannotGrade |-> "undefined", isCorrect |-> "true",      feedback |-> "fb1"]
      [] tok = "vFalse"     -> [kind |-> "object", cannotGrade |-> "undefined", isCorrect |-> "false",     feedback |-> "fb2"]
      [] tok = "vCannot"    -> [kind |-> "object", cannotGrade |-> "true",      isCorrect |-> "undefined", feedback |-> "fb1"]
      [] tok = "vNoVerdict" -> [kind |-> "object", cannotGrade |-> "undefined", isCorrect |-> "undefined", feedback |-> "fb2"]
      [] tok = "vBoth"      -> [kind |-> "object", cannotGrade |-> "true",      isCorrect |-> "false",     feedback |-> "fb2"]
      [] tok = "vGradable"  -> [kind |-> "object", cannotGrade |-> "false",     isCorrect |-> "true",      feedback |-> "fb1"]
      [] tok = "vNoFeedback" -> [kind |-> "object", cannotGrade |-> "undefined", isCorrect |-> "true",     feedback |-> "undefined"]
      [] tok = "vNull"      -> [kind |-> "null",   cannotGrade |-> "undefined", isCorrect |-> "undefined", feedback |-> "undefined"]
      [] tok = "vNumber"    -> [kind |-> "number", cannotGrade |-> "undefined", isCorrect |-> "undefined", feedback |-> "undefined"]

JsonTokens == {"vTrue", "vFalse", "vCannot", "vNoVerdict", "vBoth", "vGradable",
               "vNoFeedback", "vNull", "vNumber"}

\* Lexical tokens of a message content: "fence" is the three-backtick code
\* fence, "json" the language tag, "JSON" another word, "ws" a run of
\* whitespace, "text" prose
Fenced(tag, tok) == <<"fence">> \o tag \o <<"ws", tok, "ws", "fence">>

EvalContents ==
    {<<tok>> : tok \in JsonTokens}
    \cup {Fenced(<<"json">>, tok) : tok \in {"vTrue", "vCannot"}}
    \cup {Fenced(<<>>, tok) : tok \in {"vFalse", "vCannot"}}
    \cup {<<"ws">> \o Fenced(<<"json">>, "vFalse") \o <<"ws">>,
          Fenced(<<"JSON">>, "vTrue"),
          <<"fence", "json", "ws", "vTrue">>,
          <<"text", "vTrue">>,
          <<"text">>,
          <<>>}

\* status, whether the body is JSON at all, and choices[0].message.content
EvalReplies ==
    {[status |-> 200, body |-> "json", content |-> c] : c \in EvalContents}
    \cup {[status |-> 200, body |-> "text", content |-> <<>>]}
    \cup {[status |-> st, body |-> "json", content |-> <<>>] : st \in {402, 429, 500, 503}}

\* mutant: every status from 200 up counts as success
ok_NoUpperBound(status) == status >= 200

\* Response.ok
ok(status) == status >= 200 /\ status <= 299

\* String.prototype.trim on a token sequence
RECURSIVE trimStart(_)
trimStart(s) == IF s # <<>> /\ Head(s) = "ws" THEN trimStart(Tail(s)) ELSE s

RECURSIVE trimEnd(_)
trimEnd(s) == IF s # <<>> /\ s[Len(s)] = "ws" THEN trimEnd(SubSeq(s, 1, Len(s) - 1)) ELSE s

trim(s) == trimEnd(trimStart(s))

\* mutant: only a fence that carries the json tag is removed
cleanedText_TaggedOnly(raw) ==
    LET t0 == trim(raw)
        t1 == IF startsWith(t0, <<"fence", "json">>) THEN SubSeq(t0, 3, Len(t0)) ELSE t0
        t2 == IF endsWith(t1, <<"fence">>) THEN SubSeq(t1, 1, Len(t1) - 1) ELSE t1
    IN trim(t2)

\* the markdown code-fence unwrapping shared by evaluate-answer and process-document
cleanedText(raw) ==
    LET t0 == trim(raw)
        t1 == IF startsWith(t0, <<"fence", "json">>) THEN SubSeq(t0, 3, Len(t0))
              ELSE IF startsWith(t0, <<"fence">>) THEN SubSeq(t0, 2, Len(t0))
              ELSE t0
        t2 == IF endsWith(t1, <<"fence">>) THEN SubSeq(t1, 1, Len(t1) - 1) ELSE t1
    IN trim(t2)

\* JSON values the OCR service may put in the message content, by token name:
\* lists of {number, text} items, and JSON values that are no list
Item(number, text) == [number |-> number, text |-> text]

OcrList(tok) ==
    CASE tok = "lEmpty" -> <<>>
      [] tok = "l1"     -> <<Item("1", "ta")>>
      [] tok = "l2"     -> <<Item("1a", "ta"), Item("1a", "tb")>>
      [] tok = "l3"     -> <<Item("2", "ta"), Item("1b", "tb"), Item("1a", "tc")>>
      [] tok = "l4"     -> <<Item("2", "ta"), Item("1b", "tb"), Item("1a", "tc"), Item("(i)", "td")>>
      [] tok = "l5"     -> <<Item("3", "ta"), Item("2", "tb"), Item("1b", "tc"), Item("1a", "td"), Item("1", "te")>>

OcrListTokens == {tok \in {"lEmpty", "l1", "l2", "l3", "l4", "l5"} : Len(OcrList(tok)) <= MaxQuestions}

OcrOtherTokens == {"xObject", "xString", "xNull", "xNumber"}

OcrValue(tok) ==
    IF tok \in OcrListTokens
    THEN [kind |-> "array", items |-> OcrList(tok)]
    ELSE [kind |-> CASE tok = "xObject" -> "object"
                     [] tok = "xString" -> "string"
                     [] tok = "xNull"   -> "null"
                     [] tok = "xNumber" -> "number",
          items |-> <<>>]

\* JSON.parse succeeds on exactly one JSON value
JsonParses(s) == Len(s) = 1 /\ s[1] \in JsonTokens \cup OcrListTokens \cup OcrOtherTokens

-----------------------------------------------------------------------------
(* evaluate-answer *)

Slots == {"s1", "s2"}

NoMessages == [system |-> "none", user |-> "none", images |-> <<>>]
NoReply == [status |-> 0, body |-> "json", content |-> <<>>]
NoEvaluation == [kind |-> "none", cannotGrade |-> "undefined", isCorrect |-> "undefined", feedback |-> "undefined"]
NoResponse == [status |-> 0, error |-> "none", errStatus |-> 0, success |-> FALSE,
               isCorrect |-> "undefined", cannotGrade |-> "undefined", feedback |-> "undefined"]
NoEvalRequest == [questionText |-> <<>>, documentUrl |-> NoUrl, answerId |-> 0]

IdleEval == [pc |-> "idle", req |-> NoEvalRequest, messages |-> NoMessages, svc |-> NoReply,
             evaluation |-> NoEvaluation, isCorrect |-> "undefined", resp |-> NoResponse]

ErrorResponse(status, error, errStatus) ==
    [NoResponse EXCEPT !.status = status, !.error = error, !.errStatus = errStatus]

\* mutant: the keywords are looked for without lower-casing the text
EvalHasFigure_CaseSensitive(questionText) ==
    \/ includes(questionText, <<"[","s","e","e"," ","f","i","g","u","r","e">>)
    \/ includes(questionText, <<"f","i","g","u","r","e">>)
    \/ includes(questionText, <<"c","h","a","r","t">>)
    \/ includes(questionText, <<"g","r","a","p","h">>)
    \/ includes(questionText, <<"d","i","a","g","r","a","m">>)
    \/ includes(questionText, <<"t","a","b","l","e">>)

EvalHasFigure(questionText) ==
    LET lower == toLowerCase(questionText)
    IN \/ includes(lower, <<"[","s","e","e"," ","f","i","g","u","r","e">>)
       \/ includes(lower, <<"f","i","g","u","r","e">>)
       \/ includes(lower, <<"c","h","a","r","t">>)
       \/ includes(lower, <<"g","r","a","p","h">>)
       \/ includes(lower, <<"d","i","a","g","r","a","m">>)
       \/ includes(lower, <<"t","a","b","l","e">>)

\* documentUrl?.toLowerCase().endsWith(.pdf), as a truth value
isPdf(documentUrl) ==
    documentUrl.present /\ endsWith(toLowerCase(documentUrl.s), <<".","p","d","f">>)

\* mutant: every PDF document is ungradable, whatever the question says
cannotGradeAccurately_AnyPdf(questionText, documentUrl) ==
    isPdf(documentUrl)

cannotGradeAccurately(questionText, documentUrl) ==
    EvalHasFigure(questionText) /\ isPdf(documentUrl)

\* mutant: the image is attached whatever the document is
EvalMessages_PdfAttached(questionText, documentUrl) ==
    LET lenient == cannotGradeAccurately(questionText, documentUrl)
        system  == IF lenient THEN "lenient" ELSE "strict"
    IN IF EvalHasFigure(questionText) /\ TruthyUrl(documentUrl)
       THEN [system |-> system, user |-> "multimodal", images |-> <<documentUrl.s>>]
       ELSE [system |-> system, user |-> IF lenient THEN "lenient" ELSE "text", images |-> <<>>]

\* lines 34-124: the system prompt and the messages of the request
EvalMessages(questionText, documentUrl) ==
    LET lenient == cannotGradeAccurately(questionText, documentUrl)
        system  == IF lenient THEN "lenient" ELSE "strict"
    IN IF EvalHasFigure(questionText) /\ TruthyUrl(documentUrl) /\ ~isPdf(documentUrl)
       THEN [system |-> system, user |-> "multimodal", images |-> <<documentUrl.s>>]
       ELSE [system |-> system, user |-> IF lenient THEN "lenient" ELSE "text", images |-> <<>>]

FallbackEvaluation ==
    [kind |-> "object", cannotGrade |-> "undefined", isCorrect |-> "undefined",
     feedback |-> "Unable to evaluate answer."]

ParseEvaluation(responseText) ==
    LET cleaned == cleanedText(responseText)
    IN IF JsonParses(cleaned) THEN JsonValue(cleaned[1]) ELSE FallbackEvaluation

\* mutant: the verdict is taken whatever cannotGrade says
FinalIsCorrect_VerdictOnly(evaluation) ==
    IF evaluation.isCorrect \in {"null", "undefined"} THEN "false"
    ELSE evaluation.isCorrect

\* evaluation.cannotGrade ? null : (evaluation.isCorrect ?? false)
FinalIsCorrect(evaluation) ==
    IF Truthy(evaluation.cannotGrade) THEN "null"
    ELSE IF evaluation.isCorrect \in {"null", "undefined"} THEN "false"
    ELSE evaluation.isCorrect

\* mutant: the quota-exhausted branch is missing
EvalServiceError_No402(status) ==
    IF status = 429
    THEN ErrorResponse(429, "Rate limit exceeded. Please try again later.", 0)
    ELSE ErrorResponse(500, "Evaluation API error", status)

\* lines 139-157: the answer to a service response that is not ok; the thrown
\* error reaches the catch handler, which answers 500 with its message
EvalServiceError(status) ==
    IF status = 429
    THEN ErrorResponse(429, "Rate limit exceeded. Please try again later.", 0)
    ELSE IF status = 402
    THEN ErrorResponse(402, "AI credits exhausted. Please add credits to continue.", 0)
    ELSE ErrorResponse(500, "Evaluation API error", status)

\* mutant: the request is built and sent before the credential is looked at
EvalInvoke_KeyCheckedLate(r, questionText, documentUrl, answerId) ==
    /\ ev[r].pc = "idle"
    /\ \E keyed \in BOOLEAN :
          LET req == [questionText |-> questionText, documentUrl |-> documentUrl,
                      answerId |-> answerId]
          IN ev' = [ev EXCEPT ![r] =
                IF ~keyed
                THEN [IdleEval EXCEPT !.pc = "done", !.req = req,
                        !.messages = EvalMessages(questionText, documentUrl),
                        !.resp = ErrorResponse(500, "LOVABLE_API_KEY is not configured", 0)]
                ELSE [IdleEval EXCEPT !.pc = "fetching", !.req = req,
                        !.messages = EvalMessages(questionText, documentUrl)]]

\* lines 15-137: read the request, check the credential, build and send the request
EvalInvoke(r, questionText, documentUrl, answerId) ==
    /\ ev[r].pc = "idle"
    /\ \E keyed \in BOOLEAN :
          LET req == [questionText |-> questionText, documentUrl |-> documentUrl,
                      answerId |-> answerId]
          IN ev' = [ev EXCEPT ![r] =
                IF ~keyed
                THEN [IdleEval EXCEPT !.pc = "done", !.req = req,
                        !.resp = ErrorResponse(500, "LOVABLE_API_KEY is not configured", 0)]
                ELSE [IdleEval EXCEPT !.pc = "fetching", !.req = req,
                        !.messages = EvalMessages(questionText, documentUrl)]]

\* an invocation by any caller, for any stored answer
EvalStart(r, texts, urls) ==
    /\ \E t \in texts, d \in urls, a \in 1..Len(answers) : EvalInvoke(r, t.s, d.url, a)
    /\ UNCHANGED <<answers, hn, documents, questions, pd, pdRuns, card, px, upload, rls, cls>>

\* lines 139-183: the service answered
EvalReply(r) ==
    /\ ev[r].pc = "fetching"
    /\ \E svc \in EvalReplies :
          LET evaluation == ParseEvaluation(svc.content)
          IN ev' = [ev EXCEPT ![r] =
                IF ~ok(svc.status)
                THEN [@ EXCEPT !.pc = "done", !.svc = svc,
                        !.resp = EvalServiceError(svc.status)]
                ELSE IF svc.body # "json"
                THEN [@ EXCEPT !.pc = "done", !.svc = svc,
                        !.resp = ErrorResponse(500, "SyntaxError", 0)]
                ELSE IF evaluation.kind = "null"
                THEN [@ EXCEPT !.pc = "done", !.svc = svc, !.evaluation = evaluation,
                        !.resp = ErrorResponse(500, "TypeError", 0)]
                ELSE [@ EXCEPT !.pc = "updating", !.svc = svc, !.evaluation = evaluation,
                        !.isCorrect = FinalIsCorrect(evaluation)]]
    /\ UNCHANGED <<answers, hn, documents, questions, pd, pdRuns, card, px, upload, rls, cls>>

\* mutant: the update is keyed on the question of the answer, not on its id
UpdateAnswer_ByQuestion(rows, answerId, isCorrect, feedback) ==
    [i \in DOMAIN rows |->
        IF rows[i].question_id = rows[answerId].question_id
        THEN [rows[i] EXCEPT !.is_correct = isCorrect,
                             !.feedback = IF feedback = "undefined" THEN @ ELSE feedback]
        ELSE rows[i]]

\* supabase.from("student_answers").update({is_correct, feedback}).eq("id", answerId):
\* a key whose value is undefined is not sent, so its column keeps its value
UpdateAnswer(rows, answerId, isCorrect, feedback) ==
    [i \in DOMAIN rows |->
        IF i = answerId
        THEN [rows[i] EXCEPT !.is_correct = isCorrect,
                             !.feedback = IF feedback = "undefined" THEN @ ELSE feedback]
        ELSE rows[i]]

\* lines 185-209: store the result and answer
EvalUpdate(r) ==
    /\ ev[r].pc = "updating"
    /\ \E updateError \in BOOLEAN :
          IF updateError
          THEN /\ ev' = [ev EXCEPT ![r].pc = "done",
                                   ![r].resp = ErrorResponse(500, "Unknown error", 0)]
               /\ UNCHANGED answers
          ELSE /\ answers' = UpdateAnswer(answers, ev[r].req.answerId, ev[r].isCorrect,
                                          ev[r].evaluation.feedback)
               /\ ev' = [ev EXCEPT ![r].pc = "done",
                                   ![r].resp = [NoResponse EXCEPT
                                        !.status = 200, !.success = TRUE,
                                        !.isCorrect = ev[r].isCorrect,
                                        !.cannotGrade = IF Truthy(ev[r].evaluation.cannotGrade)
                                                        THEN ev[r].evaluation.cannotGrade
                                                        ELSE "false",
                                        !.feedback = ev[r].evaluation.feedback]]
    /\ UNCHANGED <<hn, documents, questions, pd, pdRuns, card, px, upload, rls, cls>>

\* the response is delivered and the invocation ends
EvalReturn(r) ==
    /\ ev[r].pc = "done"
    /\ ev' = [ev EXCEPT ![r] = IdleEval]
    /\ UNCHANGED <<answers, hn, documents, questions, pd, pdRuns, card, px, upload, rls, cls>>

-----------------------------------------------------------------------------
(* QuestionCard.handleSubmit, lines 57-64: the row evaluate-answer will update *)

QuestionIds == {"q1", "q2"}

SubmitInsert ==
    /\ Len(answers) < MaxAnswers
    /\ \E q \in QuestionIds :
          answers' = Append(answers, [question_id |-> q, student_answer |-> "42",
                                      is_correct |-> "null", feedback |-> "null"])
    /\ UNCHANGED <<ev, hn, documents, questions, pd, pdRuns, card, px, upload, rls, cls>>

-----------------------------------------------------------------------------
(* get-hint *)

\* a hint is a token sequence; these are the histories a caller may hold
HintHistories == {<<>>, <<<<"h1">>>>, <<<<"h1">>, <<"h2">>>>}

HintContents == {<<"h1">>, <<"h2">>, <<"ws", "h3", "ws">>, <<"ws">>, <<>>}

HintReplies ==
    {[status |-> 200, body |-> "json", content |-> c] : c \in HintContents}
    \cup {[status |-> 200, body |-> "text", content |-> <<>>]}
    \cup {[status |-> st, body |-> "json", content |-> <<>>] : st \in {402, 429, 500, 503}}

NoHintRequest == [questionText |-> <<>>, previousHints |-> <<>>, documentUrl |-> NoUrl]
NoHintMessages == [context |-> <<>>, user |-> "none", images |-> <<>>]
NoHintResponse == [status |-> 0, error |-> "none", errStatus |-> 0, success |-> FALSE, hint |-> <<>>]

IdleHint == [pc |-> "idle", req |-> NoHintRequest, messages |-> NoHintMessages,
             svc |-> NoReply, resp |-> NoHintResponse]

HintErrorResponse(status, error, errStatus) ==
    [NoHintResponse EXCEPT !.status = status, !.error = error, !.errStatus = errStatus]

\* mutant: get-hint's list of keywords lacks the last one
HintHasFigure_NoTable(questionText) ==
    LET lower == toLowerCase(questionText)
    IN \/ includes(lower, <<"[","s","e","e"," ","f","i","g","u","r","e">>)
       \/ includes(lower, <<"f","i","g","u","r","e">>)
       \/ includes(lower, <<"c","h","a","r","t">>)
       \/ includes(lower, <<"g","r","a","p","h">>)
       \/ includes(lower, <<"d","i","a","g","r","a","m">>)

\* lines 26-32
HintHasFigure(questionText) ==
    LET lower == toLowerCase(questionText)
    IN \/ includes(lower, <<"[","s","e","e"," ","f","i","g","u","r","e">>)
       \/ includes(lower, <<"f","i","g","u","r","e">>)
       \/ includes(lower, <<"c","h","a","r","t">>)
       \/ includes(lower, <<"g","r","a","p","h">>)
       \/ includes(lower, <<"d","i","a","g","r","a","m">>)
       \/ includes(lower, <<"t","a","b","l","e">>)

\* the system message carries the previous hints; the user message carries
\* the document as an image part when hasFigure && documentUrl
HintMessages(questionText, previousHints, documentUrl) ==
    IF HintHasFigure(questionText) /\ TruthyUrl(documentUrl)
    THEN [context |-> previousHints, user |-> "multimodal", images |-> <<documentUrl.s>>]
    ELSE [context |-> previousHints, user |-> "text", images |-> <<>>]

FallbackHint == <<"Try breaking down the problem into smaller steps.">>

\* (content || fallback).trim()
HintText(content) == trim(IF content # <<>> THEN content ELSE FallbackHint)

\* lines 100-118: the answer to a service response that is not ok
HintServiceError(status) ==
    IF status = 429
    THEN HintErrorResponse(429, "Rate limit exceeded. Please try again later.", 0)
    ELSE IF status = 402
    THEN HintErrorResponse(402, "AI credits exhausted. Please add credits to continue.", 0)
    ELSE HintErrorResponse(500, "Hint API error", status)

\* lines 14-98: read the request, check the credential, build and send the request
HintInvoke(r, questionText, previousHints, documentUrl) ==
    /\ hn[r].pc = "idle"
    /\ \E keyed \in BOOLEAN :
          LET req == [questionText |-> questionText, previousHints |-> previousHints,
                      documentUrl |-> documentUrl]
          IN hn' = [hn EXCEPT ![r] =
                IF ~keyed
                THEN [IdleHint EXCEPT !.pc = "done", !.req = req,
                        !.resp = HintErrorResponse(500, "LOVABLE_API_KEY is not configured", 0)]
                ELSE [IdleHint EXCEPT !.pc = "fetching", !.req = req,
                        !.messages = HintMessages(questionText, previousHints, documentUrl)]]

\* an invocation by any caller, with any history
HintStart(r, texts, urls, histories) ==
    /\ \E t \in texts, d \in urls, h \in histories : HintInvoke(r, t.s, h, d.url)
    /\ UNCHANGED <<answers, ev, documents, questions, pd, pdRuns, card, px, upload, rls, cls>>

\* lines 100-130: the service answered
HintReply(r) ==
    /\ hn[r].pc = "fetching"
    /\ \E svc \in HintReplies :
          hn' = [hn EXCEPT ![r] =
                IF ~ok(svc.status)
                THEN [@ EXCEPT !.pc = "done", !.svc = svc,
                        !.resp = HintServiceError(svc.status)]
                ELSE IF svc.body # "json"
                THEN [@ EXCEPT !.pc = "done", !.svc = svc,
                        !.resp = HintErrorResponse(500, "SyntaxError", 0)]
                ELSE [@ EXCEPT !.pc = "done", !.svc = svc,
                        !.resp = [NoHintResponse EXCEPT !.status = 200, !.success = TRUE,
                                                        !.hint = HintText(svc.content)]]]
    /\ UNCHANGED <<answers, ev, documents, questions, pd, pdRuns, card, px, upload, rls, cls>>

HintReturn(r) ==
    /\ hn[r].pc = "done"
    /\ hn' = [hn EXCEPT ![r] = IdleHint]
    /\ UNCHANGED <<answers, ev, documents, questions, pd, pdRuns, card, px, upload, rls, cls>>

-----------------------------------------------------------------------------
(* DocumentUpload.processFile, lines 256-264: the row process-document works on *)

UploadInsert ==
    /\ Len(documents) < MaxDocuments
    /\ documents' = Append(documents, [filename |-> "f", status |-> "processing",
                                       file_url |-> "null", user_id |-> "null"])
    /\ UNCHANGED <<answers, ev, hn, questions, pd, pdRuns, card, px, upload, rls, cls>>

-----------------------------------------------------------------------------
(* process-document *)

\* DEFAULT of questions.sort_order
SortOrderDefault == 0

OcrContents ==
    {<<tok>> : tok \in OcrListTokens \cup OcrOtherTokens}
    \cup {Fenced(<<"json">>, tok) : tok \in OcrListTokens \ {"l1", "l2"}}
    \cup {<<"text">>, <<>>}

OcrReplies ==
    {[status |-> 200, body |-> "json", content |-> c] : c \in OcrContents}
    \cup {[status |-> 200, body |-> "text", content |-> <<>>]}
    \cup {[status |-> st, body |-> "json", content |-> <<>>] : st \in {402, 429, 500}}

NoPdResponse == [status |-> 0, error |-> "none", errStatus |-> 0, success |-> FALSE,
                 questionsCount |-> "undefined"]
NoExtraction == [kind |-> "none", items |-> <<>>]

IdlePd == [pc |-> "idle", documentId |-> 0, svc |-> NoReply, extracted |-> NoExtraction,
           resp |-> NoPdResponse]

PdErrorResponse(status, error, errStatus) ==
    [NoPdResponse EXCEPT !.status = status, !.error = error, !.errStatus = errStatus]

\* lines 134-155: content || "[]", unwrap, JSON.parse, [] when it throws
ParseQuestions(content) ==
    LET extractedText == IF content # <<>> THEN content ELSE <<"lEmpty">>
        cleaned == cleanedText(extractedText)
    IN IF JsonParses(cleaned) THEN OcrValue(cleaned[1]) ELSE [kind |-> "array", items |-> <<>>]

\* mutant: the batch leaves out the last item of the list
questionRows_DropLast(documentId, items) ==
    [i \in 1..(Len(items) - 1) |->
        [document_id |-> documentId, question_number |-> items[i].number,
         question_text |-> items[i].text, sort_order |-> SortOrderDefault]]

\* questions.map(...) of lines 161-165; the insert sets no sort_order
questionRows(documentId, items) ==
    [i \in DOMAIN items |->
        [document_id |-> documentId, question_number |-> items[i].number,
         question_text |-> items[i].text, sort_order |-> SortOrderDefault]]

SetStatus(rows, documentId, status) ==
    [i \in DOMAIN rows |-> IF i = documentId THEN [rows[i] EXCEPT !.status = status] ELSE rows[i]]

\* mutant: the batch insert is attempted whatever the list holds
hasQuestions_Always(extracted) == TRUE

\* line 160: questions.length > 0
hasQuestions(extracted) == Len(extracted.items) > 0

\* line 193: questions.length, which is undefined on a JSON value that has none
questionsCount(extracted) ==
    IF extracted.kind = "array" THEN Len(extracted.items) ELSE "undefined"

\* lines 16-117: read the request, check the credential, fetch the file, call the OCR service
PdInvoke(documentId) ==
    /\ pd.pc = "idle"
    /\ pdRuns < MaxProcessRuns
    /\ pdRuns' = pdRuns + 1
    /\ \E keyed \in BOOLEAN, fileOk \in BOOLEAN :
          pd' = IF ~keyed
                THEN [IdlePd EXCEPT !.pc = "done", !.documentId = documentId,
                        !.resp = PdErrorResponse(500, "LOVABLE_API_KEY is not configured", 0)]
                ELSE IF ~fileOk
                THEN [IdlePd EXCEPT !.pc = "done", !.documentId = documentId,
                        !.resp = PdErrorResponse(500, "Failed to fetch file", 0)]
                ELSE [IdlePd EXCEPT !.pc = "ocr", !.documentId = documentId]

\* an invocation for any Document of the table
PdStart ==
    /\ \E d \in 1..Len(documents) : PdInvoke(d)
    /\ UNCHANGED <<answers, ev, hn, documents, questions, card, px, upload, rls, cls>>

\* lines 119-157: the OCR service answered
PdReply ==
    /\ pd.pc = "ocr"
    /\ \E svc \in OcrReplies, dbOk \in BOOLEAN :
          LET extracted == ParseQuestions(svc.content)
          IN IF ~ok(svc.status)
             THEN IF svc.status = 429
                  THEN /\ documents' = IF dbOk THEN SetStatus(documents, pd.documentId, "failed")
                                       ELSE documents
                       /\ pd' = [pd EXCEPT !.pc = "done", !.svc = svc,
                                   !.resp = PdErrorResponse(429, "Rate limit exceeded. Please try again later.", 0)]
                  ELSE /\ pd' = [pd EXCEPT !.pc = "done", !.svc = svc,
                                   !.resp = PdErrorResponse(500, "OCR API error", svc.status)]
                       /\ UNCHANGED documents
             ELSE /\ UNCHANGED documents
                  /\ pd' = IF svc.body # "json"
                           THEN [pd EXCEPT !.pc = "done", !.svc = svc,
                                   !.resp = PdErrorResponse(500, "SyntaxError", 0)]
                           ELSE IF extracted.kind \in {"null", "string"}
                           THEN [pd EXCEPT !.pc = "done", !.svc = svc, !.extracted = extracted,
                                   !.resp = PdErrorResponse(500, "TypeError", 0)]
                           ELSE IF hasQuestions(extracted)
                           THEN [pd EXCEPT !.pc = "inserting", !.svc = svc, !.extracted = extracted]
                           ELSE [pd EXCEPT !.pc = "completing", !.svc = svc, !.extracted = extracted]
    /\ UNCHANGED <<answers, ev, hn, questions, pdRuns, card, px, upload, rls, cls>>

\* lines 159-175: the batch insert of the extracted questions
PdInsert ==
    /\ pd.pc = "inserting"
    /\ \E insertError \in BOOLEAN :
          IF insertError
          THEN /\ pd' = [pd EXCEPT !.pc = "done", !.resp = PdErrorResponse(500, "Unknown error", 0)]
               /\ UNCHANGED questions
          ELSE /\ questions' = questions \o questionRows(pd.documentId, pd.extracted.items)
               /\ pd' = [pd EXCEPT !.pc = "completing"]
    /\ UNCHANGED <<answers, ev, hn, documents, pdRuns, card, px, upload, rls, cls>>

\* lines 177-197: mark the document completed and answer
PdComplete ==
    /\ pd.pc = "completing"
    /\ \E updateError \in BOOLEAN :
          IF updateError
          THEN /\ pd' = [pd EXCEPT !.pc = "done", !.resp = PdErrorResponse(500, "Unknown error", 0)]
               /\ UNCHANGED documents
          ELSE /\ documents' = SetStatus(documents, pd.documentId, "completed")
               /\ pd' = [pd EXCEPT !.pc = "done",
                            !.resp = [NoPdResponse EXCEPT !.status = 200, !.success = TRUE,
                                        !.questionsCount = questionsCount(pd.extracted)]]
    /\ UNCHANGED <<answers, ev, hn, questions, pdRuns, card, px, upload, rls, cls>>

PdReturn ==
    /\ pd.pc = "done"
    /\ pd' = IdlePd
    /\ UNCHANGED <<answers, ev, hn, documents, questions, pdRuns, card, px, upload, rls, cls>>

\* QuestionsList.fetchQuestions: every sequence the query
\* select * where document_id = d order by sort_order asc may return
RECURSIVE OrderedBySortOrder(_)
OrderedBySortOrder(ids) ==
    IF ids = {} THEN {<<>>}
    ELSE UNION { {<<questions[i]>> \o rest : rest \in OrderedBySortOrder(ids \ {i})} :
                 i \in {j \in ids : \A k \in ids : questions[j].sort_order <= questions[k].sort_order} }

fetchQuestions(documentId) ==
    OrderedBySortOrder({i \in DOMAIN questions : questions[i].document_id = documentId})

-----------------------------------------------------------------------------
(* QuestionCard: handleSubmit, handleGetHint and what the card renders *)

\* submissions of one card per behaviour
MaxSubmits == 2

\* hints one card asks for per behaviour
MaxHints == 2

\* what the student may have typed, as tokens ("ws" is a run of whitespace)
AnswerTexts == {<<>>, <<"ws">>, <<"42">>, <<"ws", "7", "ws">>}

\* the questions and document references a card may be mounted with
CardQuestions == {
    [id |-> "q1", text |-> <<"s","o","l","v","e"," ","x">>],
    [id |-> "q2", text |-> <<"G","R","A","P","H"," ","y">>] }

CardUrls == {
    NoUrl,
    [present |-> TRUE, s |-> <<"a",".","p","n","g">>],
    [present |-> TRUE, s |-> <<"a",".","p","d","f">>] }

NoQuestion == [id |-> "none", text |-> <<>>]
NoResult == [isCorrect |-> "null", feedback |-> "null"]

\* no card is mounted
NoCard == [pc |-> "unmounted", hpc |-> "unmounted", question |-> NoQuestion,
           documentUrl |-> NoUrl, answer |-> <<>>, answerId |-> 0,
           isSubmitting |-> FALSE, isGettingHint |-> FALSE,
           hints |-> <<>>, showHints |-> FALSE, currentResult |-> NoResult,
           toast |-> "none"]

\* lines 29-42: the state of a card mounted without an existing answer
MountedCard(question, documentUrl) ==
    [NoCard EXCEPT !.pc = "idle", !.hpc = "idle", !.question = question,
                   !.documentUrl = documentUrl]

\* mutant: a question keeps one Answer, which a new submission replaces
insertAnswer_Upsert(rows, row) ==
    IF \E i \in DOMAIN rows : rows[i].question_id = row.question_id
    THEN [i \in DOMAIN rows |-> IF rows[i].question_id = row.question_id THEN row ELSE rows[i]]
    ELSE Append(rows, row)

\* lines 57-64: insert into student_answers; is_correct and feedback take
\* the column default, which is null
insertAnswer(rows, row) == Append(rows, row)

\* mutant: the guard looks at the text as typed
isEmptyAnswer_Untrimmed(text) == text = <<>>

\* line 45: !answer.trim()
isEmptyAnswer(text) == trim(text) = <<>>

\* lines 44-66: the empty-answer guard and the insert
CardSubmit ==
    /\ card.pc = "idle"
    /\ ~card.isSubmitting
    /\ Len(answers) < MaxSubmits
    /\ \E text \in AnswerTexts, answerError \in BOOLEAN :
          IF isEmptyAnswer(text)
          THEN /\ card' = [card EXCEPT !.answer = text, !.toast = "Empty answer"]
               /\ UNCHANGED answers
          ELSE IF answerError
          THEN /\ card' = [card EXCEPT !.answer = text, !.toast = "Submission failed"]
               /\ UNCHANGED answers
          ELSE /\ answers' = insertAnswer(answers,
                                 [question_id |-> card.question.id,
                                  student_answer |-> trim(text),
                                  is_correct |-> "null", feedback |-> "null"])
               /\ card' = [card EXCEPT !.answer = text, !.pc = "inserted",
                                       !.isSubmitting = TRUE,
                                       !.answerId = Len(answers')]
    /\ UNCHANGED <<ev, hn, documents, questions, pd, pdRuns, px, upload, rls, cls>>

\* lines 68-80: supabase.functions.invoke("evaluate-answer", ...)
CardInvoke ==
    /\ card.pc = "inserted"
    /\ EvalInvoke("s1", card.question.text, card.documentUrl, card.answerId)
    /\ card' = [card EXCEPT !.pc = "evaluating"]
    /\ UNCHANGED <<answers, hn, documents, questions, pd, pdRuns, px, upload, rls, cls>>

\* lines 92-96: the toast that announces the result
ResultToast(isCorrect) == IF Truthy(isCorrect) THEN "Correct!" ELSE "Not quite right"

\* mutant: the submitting flag is cleared on success only
afterSubmit_NoFinally(c, resp) ==
    IF resp.status = 200
    THEN [c EXCEPT !.pc = "idle", !.isSubmitting = FALSE,
             !.currentResult = [isCorrect |-> resp.isCorrect, feedback |-> resp.feedback],
             !.toast = ResultToast(resp.isCorrect)]
    ELSE [c EXCEPT !.pc = "idle", !.toast = "Submission failed"]

\* lines 82-108: setCurrentResult and the result toast, or the catch; then
\* the finally
afterSubmit(c, resp) ==
    IF resp.status = 200
    THEN [c EXCEPT !.pc = "idle", !.isSubmitting = FALSE,
             !.currentResult = [isCorrect |-> resp.isCorrect, feedback |-> resp.feedback],
             !.toast = ResultToast(resp.isCorrect)]
    ELSE [c EXCEPT !.pc = "idle", !.isSubmitting = FALSE,
             !.toast = "Submission failed"]

\* lines 82-108: the response of evaluate-answer arrives
CardSubmitDone ==
    /\ card.pc = "evaluating"
    /\ ev["s1"].pc = "done"
    /\ card' = afterSubmit(card, ev["s1"].resp)
    /\ ev' = [ev EXCEPT !["s1"] = IdleEval]
    /\ UNCHANGED <<answers, hn, documents, questions, pd, pdRuns, px, upload, rls, cls>>

\* line 146
hasSubmitted(c) == c.currentResult.isCorrect # "null"

\* lines 157-171: the badge in the card header
Badge(c) ==
    IF ~hasSubmitted(c) THEN "none"
    ELSE IF Truthy(c.currentResult.isCorrect) THEN "Correct"
    ELSE "Incorrect"

\* lines 218-229: the feedback panel
FeedbackShown(c) == hasSubmitted(c) /\ Truthy(c.currentResult.feedback)

\* mutant: the new hint replaces the list
appendHint_Replace(prev, hint) == <<hint>>

\* line 127: [...prev, data.hint]
appendHint(prev, hint) == Append(prev, hint)

\* lines 111-120: supabase.functions.invoke("get-hint", ...)
CardGetHint ==
    /\ card.hpc = "idle"
    /\ ~card.isGettingHint
    /\ Len(card.hints) < MaxHints
    /\ HintInvoke("s1", card.question.text, card.hints, card.documentUrl)
    /\ card' = [card EXCEPT !.hpc = "waiting", !.isGettingHint = TRUE]
    /\ UNCHANGED <<answers, ev, documents, questions, pd, pdRuns, px, upload, rls, cls>>

\* lines 122-143: the response of get-hint arrives
CardHintDone ==
    /\ card.hpc = "waiting"
    /\ hn["s1"].pc = "done"
    /\ card' = IF hn["s1"].resp.status = 200
               THEN [card EXCEPT !.hpc = "idle", !.isGettingHint = FALSE,
                        !.hints = appendHint(card.hints, hn["s1"].resp.hint),
                        !.showHints = TRUE, !.toast = "Hint received!"]
               ELSE [card EXCEPT !.hpc = "idle", !.isGettingHint = FALSE,
                        !.toast = "Failed to get hint"]
    /\ hn' = [hn EXCEPT !["s1"] = IdleHint]
    /\ UNCHANGED <<answers, ev, documents, questions, pd, pdRuns, px, upload, rls, cls>>

-----------------------------------------------------------------------------
(* The evaluation parser applied to one payload, plain and in a code fence *)

\* payloads that carry an isCorrect boolean and a feedback string
WellFormedTokens ==
    {tok \in JsonTokens : /\ JsonValue(tok).kind = "object"
                          /\ JsonValue(tok).isCorrect \in {"true", "false"}
                          /\ JsonValue(tok).feedback # "undefined"}

Whitespace == {<<>>, <<"ws">>}

\* the payload in a code fence, with or without the json tag and with
\* optional whitespace around the fence and around the payload
Wrappings(tok) ==
    {lead \o <<"fence">> \o tag \o in1 \o <<tok>> \o in2 \o <<"fence">> \o trail :
        lead \in Whitespace, tag \in {<<>>, <<"json">>}, in1 \in Whitespace,
        in2 \in Whitespace, trail \in Whitespace}

NoOutcome == [isCorrect |-> "undefined", feedback |-> "undefined"]
NoParse == [pc |-> "none", tok |-> "none", content |-> <<>>,
            plain |-> NoOutcome, wrapped |-> NoOutcome]

\* lines 163-183 and 189-190: the (outcome, feedback) pair of a content
Outcome(responseText) ==
    LET evaluation == ParseEvaluation(responseText)
    IN [isCorrect |-> FinalIsCorrect(evaluation), feedback |-> evaluation.feedback]

ParseApply ==
    /\ px.pc = "input"
    /\ px' = [px EXCEPT !.pc = "parsed",
                        !.plain = Outcome(<<px.tok>>),
                        !.wrapped = Outcome(px.content)]
    /\ UNCHANGED <<answers, ev, hn, documents, questions, pd, pdRuns, card, upload, rls, cls>>

-----------------------------------------------------------------------------
(* Row level security of the tables: the CREATE POLICY and DROP POLICY     *)
(* statements of the migrations, applied in order                          *)

\* the callers of the data API: nobody signed in, or one of two users
Callers == {"anon", "u1", "u2"}

\* auth.uid() of a caller: NULL without a session
uid(caller) == IF caller = "anon" THEN "null" ELSE caller

\* user_id a caller may put in the body of an insert
UserIds == {"null", "u1", "u2"}

\* first migration, lines 34-43
PublicPolicies ==
    {"Allow public read access to documents",
     "Allow public insert access to documents",
     "Allow public update access to documents",
     "Allow public read access to questions",
     "Allow public insert access to questions",
     "Allow public read access to student_answers",
     "Allow public insert access to student_answers",
     "Allow public update access to student_answers"}

\* second migration, lines 9, 10 and 24: DROP POLICY IF EXISTS
DroppedPolicies ==
    {"Authenticated users can insert documents",
     "Authenticated users can read documents",
     "Authenticated users can read questions"}

\* second migration, lines 13-34
UserScopedPolicies ==
    {"Users can insert own documents",
     "Users can read own documents",
     "Users can read questions from own documents"}

\* the policies in force once both migrations have run
Policies == (PublicPolicies \ DroppedPolicies) \cup UserScopedPolicies

\* an SQL comparison with NULL is never true
SqlEq(a, b) == a # "null" /\ b # "null" /\ a = b

\* the policies of a table and command are permissive: one that admits is enough
InsertDocumentPolicies ==
    {"Allow public insert access to documents", "Users can insert own documents"}

SelectDocumentPolicies ==
    {"Allow public read access to documents", "Users can read own documents"}

SelectQuestionPolicies ==
    {"Allow public read access to questions", "Users can read questions from own documents"}

\* WITH CHECK of the insert policies of documents
CanInsertDocument(caller, row) ==
    \E p \in Policies \cap InsertDocumentPolicies :
        IF p \in PublicPolicies THEN TRUE ELSE SqlEq(uid(caller), row.user_id)

\* USING of the select policies of documents
CanSelectDocument(caller, row) ==
    \E p \in Policies \cap SelectDocumentPolicies :
        IF p \in PublicPolicies THEN TRUE ELSE SqlEq(uid(caller), row.user_id)

\* USING of the select policies of questions; the sub-select on documents
\* sees the rows the caller may select
CanSelectQuestion(caller, row, docs) ==
    \E p \in Policies \cap SelectQuestionPolicies :
        IF p \in PublicPolicies THEN TRUE
        ELSE \E d \in DOMAIN docs :
                /\ d = row.document_id
                /\ SqlEq(docs[d].user_id, uid(caller))
                /\ CanSelectDocument(caller, docs[d])

NoCaller == [caller |-> "anon", documents |-> {}, questions |-> {}]

\* Auth page and signOut of the Index page: the session changes hands
SignIn ==
    /\ pd.pc = "idle"
    /\ \E c \in Callers \ {rls.caller} : rls' = [NoCaller EXCEPT !.caller = c]
    /\ UNCHANGED <<answers, ev, hn, documents, questions, pd, pdRuns, card, px, upload, cls>>

\* insert into documents through the data API; processFile sends no user_id
ApiInsertDocument ==
    /\ pd.pc = "idle"
    /\ Len(documents) < MaxDocuments
    /\ \E owner \in UserIds :
          LET row == [filename |-> "f", status |-> "processing",
                      file_url |-> "null", user_id |-> owner]
          IN /\ CanInsertDocument(rls.caller, row)
             /\ documents' = Append(documents, row)
    /\ UNCHANGED <<answers, ev, hn, questions, pd, pdRuns, card, px, upload, rls, cls>>

\* a select on documents through the data API, as QuestionsList.fetchDocuments
\* issues it; the rows returned are those a select policy admits
ApiSelectDocuments ==
    /\ pd.pc = "idle"
    /\ rls' = [rls EXCEPT !.documents =
                 {d \in DOMAIN documents : CanSelectDocument(rls.caller, documents[d])}]
    /\ UNCHANGED <<answers, ev, hn, documents, questions, pd, pdRuns, card, px, upload, cls>>

\* a select on questions through the data API, as QuestionsList.fetchQuestions
\* issues it
ApiSelectQuestions ==
    /\ pd.pc = "idle"
    /\ rls' = [rls EXCEPT !.questions =
                 {q \in DOMAIN questions :
                     CanSelectQuestion(rls.caller, questions[q], documents)}]
    /\ UNCHANGED <<answers, ev, hn, documents, questions, pd, pdRuns, card, px, upload, cls>>

-----------------------------------------------------------------------------
(* The classifiers side by side *)

\* words a question text may hold, with whether the word is one of the
\* visual-reference keywords in some letter case
ClassifyWords == {
    [s |-> <<"f","i","g","u","r","e">>, kw |-> TRUE],
    [s |-> <<"F","I","G","U","R","E">>, kw |-> TRUE],
    [s |-> <<"F","i","g","u","r","e">>, kw |-> TRUE],
    [s |-> <<"c","h","a","r","t">>, kw |-> TRUE],
    [s |-> <<"C","H","A","R","T">>, kw |-> TRUE],
    [s |-> <<"C","h","a","r","t">>, kw |-> TRUE],
    [s |-> <<"g","r","a","p","h">>, kw |-> TRUE],
    [s |-> <<"G","R","A","P","H">>, kw |-> TRUE],
    [s |-> <<"G","r","a","p","h">>, kw |-> TRUE],
    [s |-> <<"d","i","a","g","r","a","m">>, kw |-> TRUE],
    [s |-> <<"D","I","A","G","R","A","M">>, kw |-> TRUE],
    [s |-> <<"D","i","a","g","r","a","m">>, kw |-> TRUE],
    [s |-> <<"t","a","b","l","e">>, kw |-> TRUE],
    [s |-> <<"T","A","B","L","E">>, kw |-> TRUE],
    [s |-> <<"T","a","b","l","e">>, kw |-> TRUE],
    [s |-> <<"[","S","e","e"," ","F","i","g","u","r","e">>, kw |-> TRUE],
    [s |-> <<"f","i","g","u","r">>, kw |-> FALSE],
    [s |-> <<"c","h","a","t">>, kw |-> FALSE],
    [s |-> <<"g","r","a","p">>, kw |-> FALSE],
    [s |-> <<"d","i","a","g","a","m">>, kw |-> FALSE],
    [s |-> <<"t","a","b","e","l">>, kw |-> FALSE],
    [s |-> <<"F","i","g">>, kw |-> FALSE],
    [s |-> <<"p","l","o","t">>, kw |-> FALSE],
    [s |-> <<"f","i"," ","g","u","r","e">>, kw |-> FALSE] }

\* what may stand before and after the word; neither completes a keyword
Before == {<<>>, <<"a"," ">>}
After == {<<>>, <<"s">>, <<" ","1">>}

ClassifyTexts ==
    {[s |-> pre \o w.s \o post, kw |-> w.kw] : w \in ClassifyWords, pre \in Before, post \in After}

NoClassify == [pc |-> "none", text |-> <<>>, kw |-> FALSE, hint |-> FALSE, eval |-> FALSE]

\* get-hint lines 26-32 and evaluate-answer lines 27-33 on the same text
ClassifyApply ==
    /\ cls.pc = "input"
    /\ cls' = [cls EXCEPT !.pc = "done",
                          !.hint = HintHasFigure(cls.text),
                          !.eval = EvalHasFigure(cls.text)]
    /\ UNCHANGED <<answers, ev, hn, documents, questions, pd, pdRuns, card, px, upload, rls>>

-----------------------------------------------------------------------------
(* DocumentUpload.processFile *)

\* line 232
validTypes == {"image/png", "image/jpeg", "image/jpg", "image/webp", "application/pdf"}

\* the files a user may drop: name, MIME type, and whether the size is
\* within the 10MB of line 243
Files ==
    {[name |-> n, type |-> t, small |-> b] :
        n \in {<<"a",".","p","n","g">>, <<"a",".","p","d","f">>},
        t \in {"image/png", "application/pdf", "text/plain"},
        b \in BOOLEAN}

\* getPublicUrl of lines 274-276 for the path of line 267
publicUrl(documentId, name) == [present |-> TRUE, s |-> <<documentId, "/">> \o name]

NoUpload == [pc |-> "idle", uploadStatus |-> "idle", isUploading |-> FALSE,
             documentId |-> 0, name |-> <<>>, publicUrl |-> NoUrl, toast |-> "none"]

\* lines 230-264: validation and the insert of the Document record
UploadBegin ==
    /\ upload.pc = "idle"
    /\ ~upload.isUploading
    /\ Len(documents) < MaxDocuments
    /\ \E file \in Files, docError \in BOOLEAN :
          IF file.type \notin validTypes
          THEN /\ upload' = [upload EXCEPT !.toast = "Invalid file type"]
               /\ UNCHANGED documents
          ELSE IF ~file.small
          THEN /\ upload' = [upload EXCEPT !.toast = "File too large"]
               /\ UNCHANGED documents
          ELSE IF docError
          THEN /\ upload' = [upload EXCEPT !.uploadStatus = "error", !.name = file.name,
                                           !.toast = "Upload failed"]
               /\ UNCHANGED documents
          ELSE /\ documents' = Append(documents,
                                    [filename |-> file.name, status |-> "processing",
                                     file_url |-> "null", user_id |-> "null"])
               /\ upload' = [upload EXCEPT !.pc = "inserted", !.uploadStatus = "uploading",
                                           !.isUploading = TRUE, !.name = file.name,
                                           !.documentId = Len(documents'), !.toast = "none"]
    /\ UNCHANGED <<answers, ev, hn, questions, pd, pdRuns, card, px, rls, cls>>

\* lines 266-278: the file goes to storage and its public URL is read
UploadStore ==
    /\ upload.pc = "inserted"
    /\ \E uploadError \in BOOLEAN :
          upload' = IF uploadError
                    THEN [upload EXCEPT !.pc = "idle", !.uploadStatus = "error",
                                        !.isUploading = FALSE, !.toast = "Upload failed"]
                    ELSE [upload EXCEPT !.pc = "stored", !.uploadStatus = "processing",
                                        !.publicUrl = publicUrl(upload.documentId, upload.name)]
    /\ UNCHANGED <<answers, ev, hn, documents, questions, pd, pdRuns, card, px, rls, cls>>

\* lines 280-290: supabase.functions.invoke("process-document", ...)
UploadInvoke ==
    /\ upload.pc = "stored"
    /\ PdInvoke(upload.documentId)
    /\ upload' = [upload EXCEPT !.pc = "invoked"]
    /\ UNCHANGED <<answers, ev, hn, documents, questions, card, px, rls, cls>>

\* lines 292-318: the response of process-document arrives
UploadDone ==
    /\ upload.pc = "invoked"
    /\ pd.pc = "done"
    /\ upload' = IF pd.resp.status = 200
                 THEN [upload EXCEPT !.pc = "idle", !.uploadStatus = "complete",
                                     !.isUploading = FALSE, !.toast = "Document processed!"]
                 ELSE [upload EXCEPT !.pc = "idle", !.uploadStatus = "error",
                                     !.isUploading = FALSE, !.toast = "Upload failed"]
    /\ pd' = IdlePd
    /\ UNCHANGED <<answers, ev, hn, documents, questions, pdRuns, card, px, rls, cls>>

\* QuestionsList line 219: documentUrl={selectedDocument?.file_url}
documentUrlProp(document) == document.file_url

-----------------------------------------------------------------------------
(* Specifications *)

\* no invocation is running
InitFunctions ==
    /\ ev = [r \in Slots |-> IdleEval]
    /\ hn = [r \in Slots |-> IdleHint]
    /\ pd = IdlePd
    /\ pdRuns = 0

\* no file chosen, nobody signed in, nothing classified
InitRest ==
    /\ upload = NoUpload
    /\ rls = NoCaller
    /\ cls = NoClassify

\* the tables as the migration creates them
InitTables ==
    /\ answers = <<>>
    /\ documents = <<>>
    /\ questions = <<>>

Init ==
    /\ InitFunctions
    /\ InitTables
    /\ card = NoCard
    /\ px = NoParse
    /\ InitRest

\* the edge functions keep nothing between invocations and share no state
\* with each other, so the invocations are explored one at a time
NoInvocation ==
    /\ \A r \in Slots : ev[r].pc = "idle" /\ hn[r].pc = "idle"
    /\ pd.pc = "idle"

\* evaluate-answer and get-hint
Next ==
    \/ SubmitInsert
    \/ NoInvocation /\ EvalStart("s1", QuestionTexts, DocumentUrls)
    \/ EvalReply("s1")
    \/ EvalUpdate("s1")
    \/ EvalReturn("s1")
    \/ NoInvocation /\ HintStart("s1", QuestionTexts, DocumentUrls, HintHistories)
    \/ HintReply("s1")
    \/ HintReturn("s1")

Spec == Init /\ [][Next]_vars

\* upload and process-document
NextDoc ==
    \/ UploadInsert
    \/ PdStart
    \/ PdReply
    \/ PdInsert
    \/ PdComplete
    \/ PdReturn

SpecDoc == Init /\ [][NextDoc]_vars

\* one mounted card
InitCard ==
    /\ InitFunctions
    /\ InitTables
    /\ card \in {MountedCard(q, u) : q \in CardQuestions, u \in CardUrls}
    /\ px = NoParse
    /\ InitRest

\* a card's submissions and their evaluation
NextSubmit ==
    \/ CardSubmit
    \/ CardInvoke
    \/ EvalReply("s1")
    \/ EvalUpdate("s1")
    \/ CardSubmitDone

SpecSubmit == InitCard /\ [][NextSubmit]_vars

\* a card's hint requests
NextHint ==
    \/ CardGetHint
    \/ HintReply("s1")
    \/ CardHintDone

SpecHint == InitCard /\ [][NextHint]_vars

\* the parser on every well-formed payload and every wrapping of it
InitParse ==
    /\ InitFunctions
    /\ InitTables
    /\ card = NoCard
    /\ px \in UNION {{[NoParse EXCEPT !.pc = "input", !.tok = tok, !.content = w] :
                           w \in Wrappings(tok)} : tok \in WellFormedTokens}
    /\ InitRest

NextParse ==
    \/ ParseApply

SpecParse == InitParse /\ [][NextParse]_vars

\* the inputs of the invocations that are explored together
ConfigTexts == {t \in QuestionTexts : t.s \in {<<"s","o","l","v","e"," ","x">>, <<"G","R","A","P","H"," ","y">>}}
ConfigUrls == {d \in DocumentUrls : d.url.s \in {<<>>, <<"a",".","p","d","f">>}}
ConfigHistories == {<<>>, <<<<"h1">>>>}

\* one submitted Answer not graded yet, one uploaded Document not processed yet
InitConfig ==
    /\ InitFunctions
    /\ answers = <<[question_id |-> "q1", student_answer |-> "42",
                    is_correct |-> "null", feedback |-> "null"]>>
    /\ documents = <<[filename |-> "f", status |-> "processing", file_url |-> "null",
                      user_id |-> "null"]>>
    /\ questions = <<>>
    /\ card = NoCard
    /\ px = NoParse
    /\ InitRest

\* the three functions over the same tables, one invocation at a time
NextConfig ==
    \/ NoInvocation /\ EvalStart("s1", ConfigTexts, ConfigUrls)
    \/ EvalReply("s1")
    \/ EvalUpdate("s1")
    \/ EvalReturn("s1")
    \/ NoInvocation /\ HintStart("s1", ConfigTexts, ConfigUrls, ConfigHistories)
    \/ HintReply("s1")
    \/ HintReturn("s1")
    \/ NoInvocation /\ PdStart
    \/ PdReply
    \/ PdInsert
    \/ PdComplete
    \/ PdReturn

SpecConfig == InitConfig /\ [][NextConfig]_vars

\* the inputs of the evaluations that run side by side
RaceTexts == {t \in QuestionTexts : t.s = <<"s","o","l","v","e"," ","x">>}
RaceUrls == {d \in DocumentUrls : d.url = NoUrl}

\* two isolates of evaluate-answer at work on the stored Answer at once
NextRace ==
    \/ \E r \in Slots : EvalStart(r, RaceTexts, RaceUrls)
    \/ \E r \in Slots : EvalReply(r)
    \/ \E r \in Slots : EvalUpdate(r)
    \/ \E r \in Slots : EvalReturn(r)

SpecRace == InitConfig /\ [][NextRace]_vars

\* the data API under the policies, with process-document filling the tables
NextRls ==
    \/ SignIn
    \/ ApiInsertDocument
    \/ ApiSelectDocuments
    \/ ApiSelectQuestions
    \/ PdStart
    \/ PdReply
    \/ PdInsert
    \/ PdComplete
    \/ PdReturn

SpecRls == Init /\ [][NextRls]_vars

\* the two classifiers on every text
InitClassify ==
    /\ InitFunctions
    /\ InitTables
    /\ card = NoCard
    /\ px = NoParse
    /\ upload = NoUpload
    /\ rls = NoCaller
    /\ cls \in {[NoClassify EXCEPT !.pc = "input", !.text = t.s, !.kw = t.kw] : t \in ClassifyTexts}

NextClassify ==
    \/ ClassifyApply

SpecClassify == InitClassify /\ [][NextClassify]_vars

\* uploads through the component and their processing
NextUpload ==
    \/ UploadBegin
    \/ UploadStore
    \/ UploadInvoke
    \/ PdReply
    \/ PdInsert
    \/ PdComplete
    \/ UploadDone

SpecUpload == Init /\ [][NextUpload]_vars

\* the cards of one question, with and without a document
InitGuard ==
    /\ InitFunctions
    /\ InitTables
    /\ card \in {MountedCard(q, u) : q \in {c \in CardQuestions : c.id = "q2"},
                                     u \in {d \in CardUrls : d.s # <<"a",".","p","d","f">>}}
    /\ px = NoParse
    /\ InitRest

\* every awaited call of handleSubmit settles: the client library resolves
\* or rejects each request, and the function answers or its platform does
SpecSubmitFair ==
    /\ InitGuard
    /\ [][NextSubmit]_vars
    /\ WF_vars(CardInvoke)
    /\ WF_vars(EvalReply("s1"))
    /\ WF_vars(EvalUpdate("s1"))
    /\ WF_vars(CardSubmitDone)

\* evaluate-answer alone, on every text and document, for the stored Answer
NextEval ==
    \/ EvalStart("s1", QuestionTexts, DocumentUrls)
    \/ EvalReply("s1")
    \/ EvalUpdate("s1")
    \/ EvalReturn("s1")

SpecEval == InitConfig /\ [][NextEval]_vars

-----------------------------------------------------------------------------
(* Properties *)

\* the invocation has built and sent its request to the service
EvalBuilt(e) == e.pc \in {"fetching", "updating", "done"} /\ e.messages.system # "none"
HintBuilt(h) == h.pc \in {"fetching", "done"} /\ h.messages.user # "none"

\* the service answered with a status outside 200..299
NonSuccess(status) == status # 0 /\ (status < 200 \/ status > 299)

\* the service answered 2xx and the invocation stored its result and answered
Stored(e) ==
    e.pc = "done" /\ e.svc.status >= 200 /\ e.svc.status <= 299 /\ e.resp.success

\* contents that are no JSON value once a surrounding code fence is removed
MalformedContents == {<<"text", "vTrue">>, <<"text">>, <<>>, Fenced(<<"JSON">>, "vTrue")}

StrictTextOnly == [system |-> "strict", user |-> "text", images |-> <<>>]
LenientTextOnly == [system |-> "lenient", user |-> "lenient", images |-> <<>>]
StrictMultimodal(url) == [system |-> "strict", user |-> "multimodal", images |-> <<url.s>>]

\* C1: a question with a visual-reference keyword on a PDF document gets the
\* lenient request, and whatever 2xx content the service returns, the
\* is_correct stored on the Answer is null, never true or false.
C1_PdfFigureStoredUngradable ==
    \A r \in Slots :
        LET e == ev[r]
        IN (/\ EvalBuilt(e)
            /\ HasKeyword(e.req.questionText)
            /\ KindOf(e.req.documentUrl) = "pdf")
           => /\ e.messages = LenientTextOnly
              /\ (Stored(e) =>
                    /\ answers[e.req.answerId].is_correct = "null"
                    /\ e.resp.isCorrect = "null")

\* C2: a 2xx content that is not valid JSON after code-fence unwrapping
\* (empty content included) is stored and returned as ungradable (is_correct
\* null, not false) with the feedback "Unable to evaluate answer.", in a
\* success response.
C2_MalformedStoredUngradable ==
    \A r \in Slots :
        LET e == ev[r]
        IN (Stored(e) /\ e.svc.content \in MalformedContents)
           => /\ answers[e.req.answerId].is_correct = "null"
              /\ answers[e.req.answerId].feedback = "Unable to evaluate answer."
              /\ e.resp.status = 200
              /\ e.resp.isCorrect = "null"
              /\ e.resp.feedback = "Unable to evaluate answer."

\* C3: for every parsed service result the outcome stored and returned is
\* null exactly when the result carries cannotGrade = true, otherwise it is
\* the isCorrect boolean the service returned; a result without an isCorrect
\* boolean is never stored as false.
C3_NoConversion ==
    \A r \in Slots :
        LET e == ev[r]
            v == e.evaluation
            stored == answers[e.req.answerId].is_correct
        IN (/\ Stored(e)
            /\ e.svc.content \notin MalformedContents
            /\ v.kind = "object")
           => /\ e.resp.isCorrect = stored
              /\ (stored = "null" <=> v.cannotGrade = "true")
              /\ (v.cannotGrade # "true" => stored = v.isCorrect)
              /\ (v.isCorrect \notin {"true", "false"} => stored # "false")

\* C4: a question text with none of the visual-reference keywords gets the
\* text-only request with the strict instruction and no image part, whether
\* the document reference is absent, an image URL or a PDF URL.
C4_NoKeywordTextOnly ==
    \A r \in Slots :
        LET e == ev[r]
        IN (EvalBuilt(e) /\ ~HasKeyword(e.req.questionText))
           => e.messages = StrictTextOnly

C4_Witness ==
    \E r \in Slots :
        /\ EvalBuilt(ev[r])
        /\ ~HasKeyword(ev[r].req.questionText)
        /\ KindOf(ev[r].req.documentUrl) = "pdf"
        /\ ev[r].messages.user = "text"

\* C5: a question text with a visual-reference keyword in any letter case on
\* an image document gets the multimodal request: exactly one image part,
\* whose URL is the documentUrl supplied, and the strict instruction.
C5_KeywordImageMultimodal ==
    \A r \in Slots :
        LET e == ev[r]
        IN (/\ EvalBuilt(e)
            /\ HasKeyword(e.req.questionText)
            /\ KindOf(e.req.documentUrl) = "image")
           => e.messages = StrictMultimodal(e.req.documentUrl)

C5_Witness ==
    \E r \in Slots :
        /\ EvalBuilt(ev[r])
        /\ HasKeyword(ev[r].req.questionText)
        /\ ev[r].req.questionText # toLowerCase(ev[r].req.questionText)
        /\ KindOf(ev[r].req.documentUrl) = "image"
        /\ ev[r].messages.images = <<ev[r].req.documentUrl.s>>

\* C6: get-hint attaches the document as an image part if and only if the
\* question has a visual reference and the document reference is present and
\* is an image, not a PDF; in every other case the hint request is text-only.
C6_HintImageIffFigureAndImage ==
    \A r \in Slots :
        LET h == hn[r]
        IN HintBuilt(h)
           => /\ (h.messages.images # <<>>) <=>
                    (HasKeyword(h.req.questionText) /\ KindOf(h.req.documentUrl) = "image")
              /\ (h.messages.images # <<>> => h.messages.images = <<h.req.documentUrl.s>>)
              /\ (h.messages.images = <<>> => h.messages.user = "text")

\* the rows of document d in the order they were inserted, which within one
\* extraction is the order of the service's list
InsertedOrder(d) == SelectSeq(questions, LAMBDA q : q.document_id = d)

\* C7: each extracted Question gets a sort_order equal to its position in
\* the service's list, so the questions of a Document read back ordered by
\* sort_order are in the service's order, and no two questions of one
\* Document share a sort_order.
C7_SortOrderIsPosition ==
    \A d \in DOMAIN documents :
        LET rows == InsertedOrder(d)
        IN /\ \A i, j \in DOMAIN rows : i # j => rows[i].sort_order # rows[j].sort_order
           /\ \A res \in fetchQuestions(d) : res = rows
           /\ (pd.pc = "completing" /\ pd.documentId = d /\ pdRuns = 1) =>
                 \E base \in {0, 1} :
                    \A k \in DOMAIN rows : rows[k].sort_order = base + k - 1

\* C8: whenever extraction errors (missing credential, file fetch failure,
\* a non-success OCR service response), the Document leaves processing for
\* failed; it does not stay in processing.
C8_ErrorMarksFailed ==
    (/\ pd.pc = "done"
     /\ ~pd.resp.success
     /\ pd.resp.error \in {"LOVABLE_API_KEY is not configured", "Failed to fetch file",
                            "OCR API error", "Rate limit exceeded. Please try again later."})
    => documents[pd.documentId].status # "processing"

\* the response status that tells the three kinds of service failure apart
ErrorKindFor(status) == IF status = 429 THEN 429 ELSE IF status = 402 THEN 402 ELSE 500

\* C9: in evaluate-answer and in get-hint a 429, a 402 and any other
\* non-success service response are answered with three distinguishable
\* errors: status 429, status 402, and a generic error (status 500) that
\* carries the service's status; none of them is a success response.
C9_ServiceErrorsDistinguished ==
    \A r \in Slots :
        /\ NonSuccess(ev[r].svc.status) =>
              /\ ev[r].pc = "done"
              /\ ~ev[r].resp.success
              /\ ev[r].resp.status = ErrorKindFor(ev[r].svc.status)
              /\ (ev[r].resp.status = 500 =>
                    /\ ev[r].resp.error = "Evaluation API error"
                    /\ ev[r].resp.errStatus = ev[r].svc.status)
        /\ NonSuccess(hn[r].svc.status) =>
              /\ hn[r].pc = "done"
              /\ ~hn[r].resp.success
              /\ hn[r].resp.status = ErrorKindFor(hn[r].svc.status)
              /\ (hn[r].resp.status = 500 =>
                    /\ hn[r].resp.error = "Hint API error"
                    /\ hn[r].resp.errStatus = hn[r].svc.status)

C9_Witness ==
    \E r \in Slots :
        /\ hn[r].pc = "done"
        /\ hn[r].svc.status = 402
        /\ hn[r].resp.status = 402
        /\ ~hn[r].resp.success

\* C10: when the grading service returns a non-success response, no step of
\* the invocation changes a stored Answer, and the response carries no
\* outcome: a service failure is never stored or returned as incorrect.
C10_ServiceFailureLeavesAnswer ==
    [][\A r \in Slots :
          NonSuccess(ev'[r].svc.status) =>
              /\ \A a \in DOMAIN answers : answers'[a] = answers[a]
              /\ ~ev'[r].resp.success
              /\ ev'[r].resp.isCorrect = "undefined"]_vars

C10_Witness ==
    \E r \in Slots :
        /\ ev[r].pc = "done"
        /\ ev[r].svc.status = 503
        /\ ev[r].resp.status = 500
        /\ answers[ev[r].req.answerId].is_correct = "null"
        /\ answers[ev[r].req.answerId].feedback = "null"

\* a content that holds no hint text: nothing, or whitespace only
NoHintText(content) == \A i \in DOMAIN content : content[i] = "ws"

\* C11: every hint get-hint returns in a success response is text the
\* service produced for that request, and whenever the service fails or
\* yields no hint text the caller gets an error instead of a hint; get-hint
\* never makes up a hint of its own.
C11_HintFromServiceOnly ==
    \A r \in Slots :
        LET h == hn[r]
        IN h.pc = "done" =>
              /\ h.resp.success =>
                    /\ h.svc.status >= 200 /\ h.svc.status <= 299
                    /\ h.resp.hint # <<>>
                    /\ \A i \in DOMAIN h.resp.hint :
                          \E j \in DOMAIN h.svc.content : h.svc.content[j] = h.resp.hint[i]
              /\ (NonSuccess(h.svc.status) \/ NoHintText(h.svc.content)) =>
                    /\ ~h.resp.success
                    /\ h.resp.error # "none"
                    /\ h.resp.hint = <<>>

\* a feedback the response carries and the feedback column: the same text,
\* or no feedback on either side (a key JSON leaves out, a NULL column)
SameFeedback(returned, stored) ==
    \/ returned = stored
    \/ returned = "undefined" /\ stored = "null"

\* C12: a success response of evaluate-answer is returned only after the
\* Answer named by answerId was updated, and the outcome, feedback and
\* ungradable flag it returns are the is_correct and feedback just stored;
\* when the update fails the response is not a success.
C12_ReturnsWhatWasStored ==
    \A r \in Slots :
        LET e == ev[r]
            row == answers[e.req.answerId]
        IN /\ (e.pc = "done" /\ e.resp.success) =>
                 /\ row.is_correct = e.resp.isCorrect
                 /\ SameFeedback(e.resp.feedback, row.feedback)
                 /\ (e.resp.cannotGrade = "true" <=> row.is_correct = "null")
           /\ (e.pc = "done" /\ e.resp.error = "Unknown error") => ~e.resp.success

\* C13: a well-formed isCorrect/feedback payload wrapped in a markdown code
\* fence (with or without the json tag, with or without whitespace around
\* the fence and the payload) parses to the same (outcome, feedback) pair as
\* the payload alone, which is the pair the payload states.
C13_FenceRoundTrip ==
    px.pc = "parsed" =>
        /\ px.content \in Wrappings(px.tok)
        /\ px.wrapped = px.plain
        /\ px.plain.feedback = JsonValue(px.tok).feedback
        /\ px.plain.isCorrect =
              (IF JsonValue(px.tok).cannotGrade = "true" THEN "null"
               ELSE JsonValue(px.tok).isCorrect)

C13_Witness ==
    /\ px.pc = "parsed"
    /\ px.tok = "vFalse"
    /\ px.content = <<"ws", "fence", "ws", "vFalse", "ws", "fence", "ws">>
    /\ px.wrapped = [isCorrect |-> "false", feedback |-> "fb2"]

\* the extraction content is a list of items, bare or in a code fence
YieldsList(content) ==
    \E tok \in OcrListTokens : content \in {<<tok>>, Fenced(<<"json">>, tok), Fenced(<<>>, tok)}

\* the OCR service answered 2xx with a JSON body, and the database accepted
\* what the invocation wrote
Extracted(p) ==
    /\ p.pc = "done"
    /\ p.svc.status >= 200 /\ p.svc.status <= 299
    /\ p.svc.body = "json"
    /\ p.resp.error # "Unknown error"

\* C14: a 2xx extraction content that is no list of items once a code fence
\* is removed (invalid JSON, or a JSON object, string, number or null) counts
\* as zero questions: no Question is inserted, the Document becomes
\* completed, and the request succeeds.
C14_MalformedIsZeroQuestions ==
    (Extracted(pd) /\ pd.svc.content # <<>> /\ ~YieldsList(pd.svc.content)) =>
        /\ pd.resp.success
        /\ pd.resp.status = 200
        /\ documents[pd.documentId].status = "completed"
        /\ (pdRuns = 1 => questions = <<>>)

\* the extraction content is the empty list, bare or in a code fence
EmptyList(content) ==
    content \in {<<"lEmpty">>, Fenced(<<"json">>, "lEmpty"), Fenced(<<>>, "lEmpty")}

\* the invocation holds a 2xx extraction reply that is the empty list
EmptyExtraction(p) ==
    /\ p.pc \in {"inserting", "completing", "done"}
    /\ p.svc.status >= 200 /\ p.svc.status <= 299
    /\ p.svc.body = "json"
    /\ EmptyList(p.svc.content)

\* C15: when extraction returns an empty list, no step of the invocation
\* inserts a Question (no insert is even attempted), and its answer, once
\* the database has accepted the status update, is a success that reports a
\* question count of 0 with the Document completed.
C15_EmptyListCompletes ==
    [][EmptyExtraction(pd') =>
          /\ questions' = questions
          /\ pd'.pc # "inserting"
          /\ (pd'.pc = "done" /\ pd'.resp.error # "Unknown error") =>
                /\ pd'.resp.success
                /\ pd'.resp.status = 200
                /\ pd'.resp.error = "none"
                /\ pd'.resp.questionsCount = 0
                /\ documents'[pd'.documentId].status = "completed"]_vars

C15_Witness ==
    /\ pd.pc = "done"
    /\ pd.svc.content = Fenced(<<"json">>, "lEmpty")
    /\ pd.resp.success
    /\ pd.resp.questionsCount = 0
    /\ documents[pd.documentId].status = "completed"
    /\ questions = <<>>

\* the outcome or the feedback of the row has been set
RowSet(row) == row.is_correct # "null" \/ row.feedback # "null"

\* the card's handleSubmit has finished and the card shows its last toast
SubmitFinished(c) == c.pc = "idle" /\ ~c.isSubmitting

\* every Answer is created with outcome and feedback unset
CreatedUnset ==
    \A a \in DOMAIN answers' :
        a \notin DOMAIN answers => answers'[a].is_correct = "null" /\ answers'[a].feedback = "null"

\* an Answer whose outcome or feedback is set is never written again
NeverRewritten ==
    \A a \in DOMAIN answers : RowSet(answers[a]) => answers'[a] = answers[a]

\* C16 as claimed: every Answer is created with outcome and feedback unset,
\* is written exactly once by the grading step whether the evaluation
\* succeeds or fails, and once set is never written again.
C16_WrittenExactlyOnce ==
    /\ [](SubmitFinished(card) => \A a \in DOMAIN answers : RowSet(answers[a]))
    /\ [][CreatedUnset /\ NeverRewritten]_vars

\* C16 as amended: every Answer is created with outcome and feedback unset;
\* only the update of its own evaluation writes it, which happens once when
\* the evaluation succeeds and never when it fails, so a failed evaluation
\* leaves it unset; once set it is never written again.
C16_WrittenAtMostOnce ==
    [][/\ CreatedUnset
       /\ NeverRewritten
       /\ \A a \in DOMAIN answers :
             answers'[a] # answers[a] =>
                /\ ev["s1"].pc = "updating"
                /\ ev["s1"].req.answerId = a
                /\ card.answerId = a
                /\ ev'["s1"].resp.success
       /\ (card.pc = "evaluating" /\ SubmitFinished(card')) =>
             (RowSet(answers'[card.answerId]) <=> ev["s1"].resp.success)]_vars

C16_Witness ==
    /\ SubmitFinished(card)
    /\ Len(answers) = 2
    /\ answers[1].is_correct = "true"
    /\ answers[1].feedback = "fb1"
    /\ ~RowSet(answers[2])
    /\ card.toast = "Submission failed"

\* the unset Answer a submission of the card's question with this text creates
NewAnswer(c, text) ==
    [question_id |-> c.question.id, student_answer |-> text,
     is_correct |-> "null", feedback |-> "null"]

\* the text without its whitespace tokens, which the typed texts have only
\* at their ends
Trimmed(text) == SelectSeq(text, LAMBDA t : t # "ws")

\* C17: re-submission is not deduplicated.  Every submit the card accepts
\* (a non-empty answer) adds a new Answer of the card's Question to the
\* table, unless the database rejects the insert, which is reported as a
\* failed submission; an empty answer adds nothing.  The outcome,
\* feedback and text of every Answer stored before are left as they were by
\* the new submission and by every step of its evaluation.
C17_ResubmissionKeepsHistory ==
    [][/\ (card.pc = "idle" /\ card' # card /\ Trimmed(card'.answer) # <<>>) =>
             \/ /\ card'.pc = "inserted"
                /\ answers' = Append(answers, NewAnswer(card, Trimmed(card'.answer)))
                /\ card'.answerId = Len(answers) + 1
             \/ /\ card'.pc = "idle"
                /\ card'.toast = "Submission failed"
                /\ answers' = answers
       /\ (card.pc = "idle" /\ card' # card /\ Trimmed(card'.answer) = <<>>) =>
             answers' = answers
       /\ \A a \in DOMAIN answers :
             /\ a \in DOMAIN answers'
             /\ answers'[a].student_answer = answers[a].student_answer
             /\ answers'[a].question_id = answers[a].question_id
             /\ a # card'.answerId => answers'[a] = answers[a]]_vars

C17_Witness ==
    /\ SubmitFinished(card)
    /\ Len(answers) = 2
    /\ answers[1].question_id = answers[2].question_id
    /\ answers[1].student_answer = <<"42">>
    /\ answers[1].is_correct = "true"
    /\ answers[2].student_answer = <<"7">>
    /\ answers[2].is_correct = "false"
    /\ answers[2].feedback = "fb2"

\* the card holds the result of an evaluation that came back ungradable
UngradableHeld(c) ==
    c.currentResult.isCorrect = "null" /\ c.currentResult.feedback # "null"

\* C18: an ungradable result (isCorrect null, cannotGrade true) is shown as a
\* third state, Review Required: the card announces Not quite right only
\* for an answer graded false and Correct only for one graded true, and while
\* it holds an ungradable result its badge reads Review Required.
C18_UngradableShownAsThirdState ==
    /\ card.toast = "Not quite right" => card.currentResult.isCorrect = "false"
    /\ card.toast = "Correct!" => card.currentResult.isCorrect = "true"
    /\ UngradableHeld(card) => Badge(card) = "Review Required"

\* the answer to a missing credential: not a success, status 500, and an
\* error text no failure of the service is answered with
IsConfigError(resp) ==
    /\ ~resp.success
    /\ resp.status = 500
    /\ resp.error = "LOVABLE_API_KEY is not configured"
    /\ resp.errStatus = 0

\* C19: with the credential missing, evaluate-answer, get-hint and
\* process-document end in their first step with a configuration error:
\* no request was built or sent to the service, no Answer, Question or
\* Document changed, and the error is one that no response to a failure of
\* the service carries.  An invocation of evaluate-answer or get-hint that
\* ends in its first step ends this way; process-document may also end
\* there because the file could not be fetched.
C19_MissingCredentialIsConfigError ==
    [][/\ \A r \in Slots :
             /\ (ev[r].pc = "idle" /\ ev'[r].pc = "done") => IsConfigError(ev'[r].resp)
             /\ (hn[r].pc = "idle" /\ hn'[r].pc = "done") => IsConfigError(hn'[r].resp)
             /\ ev'[r].resp.error = "LOVABLE_API_KEY is not configured" =>
                   /\ IsConfigError(ev'[r].resp)
                   /\ ev'[r].messages = NoMessages
                   /\ ev'[r].svc = NoReply
                   /\ UNCHANGED <<answers, questions, documents>>
             /\ hn'[r].resp.error = "LOVABLE_API_KEY is not configured" =>
                   /\ IsConfigError(hn'[r].resp)
                   /\ hn'[r].messages = NoHintMessages
                   /\ hn'[r].svc = NoReply
                   /\ UNCHANGED <<answers, questions, documents>>
             /\ ev'[r].svc.status # 0 => ~IsConfigError(ev'[r].resp)
             /\ hn'[r].svc.status # 0 => ~IsConfigError(hn'[r].resp)
       /\ (pd.pc = "idle" /\ pd'.pc = "done") =>
             \/ IsConfigError(pd'.resp)
             \/ pd'.resp.error = "Failed to fetch file"
       /\ pd'.resp.error = "LOVABLE_API_KEY is not configured" =>
             /\ IsConfigError(pd'.resp)
             /\ pd'.svc = NoReply
             /\ pd'.extracted = NoExtraction
             /\ UNCHANGED <<answers, questions, documents>>
       /\ pd'.svc.status # 0 => ~IsConfigError(pd'.resp)]_vars

C19_Witness ==
    /\ pd.pc = "done"
    /\ IsConfigError(pd.resp)
    /\ pd.svc = NoReply
    /\ documents[pd.documentId].status = "completed"
    /\ answers[1].is_correct = "false"
    /\ Len(questions) > 0

\* C20: the hint history is held by the card and only ever extended.  A
\* successful hint request appends exactly one hint, the one returned, to
\* the end of the list and leaves the earlier hints as they were and in
\* order; a failed request leaves the list as it was.  get-hint keeps
\* nothing between calls: its request carries the question, the document
\* reference and the list the card holds at the call, and nothing else.
C20_HintsOnlyAppended ==
    [][/\ card'.hints # card.hints =>
             /\ card.hpc = "waiting"
             /\ hn["s1"].pc = "done"
             /\ hn["s1"].resp.success
       /\ (card.hpc = "waiting" /\ card'.hpc = "idle") =>
             IF hn["s1"].resp.success
             THEN /\ Len(card'.hints) = Len(card.hints) + 1
                  /\ \A i \in DOMAIN card.hints : card'.hints[i] = card.hints[i]
                  /\ card'.hints[Len(card'.hints)] = hn["s1"].resp.hint
             ELSE card'.hints = card.hints
       /\ (hn["s1"].pc = "idle" /\ hn'["s1"].pc # "idle") =>
             /\ hn'["s1"].req.questionText = card.question.text
             /\ hn'["s1"].req.previousHints = card.hints
             /\ hn'["s1"].req.documentUrl = card.documentUrl
             /\ hn'["s1"].pc = "fetching" =>
                   /\ hn'["s1"].messages.context = card.hints
                   /\ \A i \in DOMAIN hn'["s1"].messages.images :
                         hn'["s1"].messages.images[i] = card.documentUrl.s
       /\ card'.hpc = "idle" => hn'["s1"] = IdleHint]_vars

C20_Witness ==
    /\ card.hpc = "idle"
    /\ card.hints = <<<<"h1">>>>
    /\ card.toast = "Failed to get hint"
    /\ ~card.isGettingHint

\* C21: concurrent evaluations of one Answer are neither deduplicated nor
\* serialized and the last write wins: once both have written, the stored
\* (outcome, feedback) pair is the pair one of them wrote and returned,
\* never the outcome of one with the feedback of the other.
C21_LastWriteWinsWhole ==
    (\A r \in Slots : Stored(ev[r]) /\ ev[r].req.answerId = 1) =>
        \E r \in Slots :
            /\ answers[1].is_correct = ev[r].resp.isCorrect
            /\ SameFeedback(ev[r].resp.feedback, answers[1].feedback)

Owns(caller, row) == caller # "anon" /\ row.user_id = caller

\* C22: under the policies of the migrations a Document is inserted and read
\* only by its owning user, and a Question is read only by the owner of its
\* Document: no select returns to a caller a row of another owner, and no
\* insert creates a Document the inserting caller does not own.
C22_OwnerOnly ==
    [][ /\ \A d \in rls'.documents : Owns(rls'.caller, documents'[d])
        /\ \A q \in rls'.questions :
              Owns(rls'.caller, documents'[questions'[q].document_id])
        /\ Len(documents') > Len(documents) =>
              Owns(rls.caller, documents'[Len(documents')]) ]_vars

\* C23: a submission whose answer is empty or only whitespace creates no
\* Answer, invokes no evaluation and leaves the displayed result and the
\* submitting flag as they were.
C23_EmptyAnswerDoesNothing ==
    [][ (card.pc = "idle" /\ card' # card /\ Trimmed(card'.answer) = <<>>) =>
            /\ answers' = answers
            /\ ev' = ev
            /\ card'.pc = "idle"
            /\ card'.currentResult = card.currentResult
            /\ card'.isSubmitting = card.isSubmitting ]_vars

\* an empty submission after a graded one: the result on display is kept
C23_Witness ==
    /\ card.pc = "idle"
    /\ card.toast = "Empty answer"
    /\ card.answer = <<"ws">>
    /\ card.currentResult.isCorrect = "true"
    /\ answers # <<>>

\* C24: get-hint and evaluate-answer classify every question text alike, and
\* the classification is true exactly when the text holds, in any letter
\* case, one of figure, chart, graph, diagram, table.
C24_SameClassifier ==
    cls.pc = "done" => cls.hint = cls.eval /\ (cls.eval <=> cls.kw)

\* an upper-case keyword inside a longer text, classified by both
C24_Witness ==
    /\ cls.pc = "done"
    /\ cls.text = <<"a"," ","T","A","B","L","E","s">>
    /\ cls.hint /\ cls.eval

\* C25: the status of a Document only moves from processing to completed or
\* from processing to failed, whatever process-document invocations run for
\* it: a completed Document never becomes failed or processing again, a
\* failed one never becomes completed.
C25_StatusMovesForwardOnly ==
    [][ \A d \in DOMAIN documents :
            documents'[d].status # documents[d].status =>
                /\ documents[d].status = "processing"
                /\ documents'[d].status \in {"completed", "failed"} ]_vars

\* the items of the running extraction, none when the result is not a list
ItemsOf(extracted) == IF extracted.kind = "array" THEN extracted.items ELSE <<>>

\* C26: process-document marks a Document completed only after the batch
\* insert of the extracted Questions succeeded: when an invocation sets the
\* status to completed, every Question of its extraction is already stored
\* for that Document; when the insert fails the invocation leaves the status
\* as it was, stores nothing and answers with an error.
C26_CompletedAfterInsert ==
    [][ /\ (pd.pc = "completing" /\ pd'.pc = "done" /\ pd'.resp.success) =>
              /\ documents'[pd.documentId].status = "completed"
              /\ \A i \in DOMAIN ItemsOf(pd.extracted) :
                    \E q \in DOMAIN questions :
                        /\ questions[q].document_id = pd.documentId
                        /\ questions[q].question_number = pd.extracted.items[i].number
                        /\ questions[q].question_text = pd.extracted.items[i].text
        /\ (pd.pc \in {"ocr", "inserting"} /\ pd'.pc = "completing") =>
              documents' = documents
        /\ (pd.pc = "inserting" /\ pd'.pc = "done") =>
              /\ ~pd'.resp.success
              /\ pd'.resp.status = 500
              /\ documents' = documents
              /\ questions' = questions ]_vars

\* a list of two items extracted, stored, and the Document then completed
C26_Witness ==
    /\ pd.pc = "done"
    /\ pd.resp.success
    /\ pd.extracted.kind = "array"
    /\ Len(pd.extracted.items) = 2
    /\ Len(questions) = 2
    /\ documents[pd.documentId].status = "completed"

\* C27: once an upload through processFile has completed successfully the
\* Document record holds the public URL of the stored file in file_url, so
\* the documentUrl QuestionsList hands to its cards is not absent.
C27_FileUrlRecorded ==
    upload.uploadStatus = "complete" =>
        documentUrlProp(documents[upload.documentId]) \notin {"null", "undefined"}

\* C28: the three request shapes of evaluate-answer exclude each other and
\* cover every request: the image is attached exactly when the question is
\* visual and the document is there and is no PDF; the lenient text-only
\* request is sent exactly when the question is visual and the document is a
\* PDF; every other request is the strict text-only one; no request is
\* lenient and carries an image.
C28_ThreeShapes ==
    \A r \in Slots :
        LET e == ev[r]
            visual == HasKeyword(e.req.questionText)
            kind == KindOf(e.req.documentUrl)
            image == e.messages.images # <<>>
            lenient == e.messages.system = "lenient"
        IN EvalBuilt(e) =>
              /\ image <=> (visual /\ kind = "image")
              /\ lenient <=> (visual /\ kind = "pdf")
              /\ ~(image /\ lenient)
              /\ image => e.messages = StrictMultimodal(e.req.documentUrl)
              /\ lenient => e.messages = LenientTextOnly
              /\ (~image /\ ~lenient) => e.messages = StrictTextOnly

\* a visual question on a PDF named in upper case: lenient, no image
C28_Witness ==
    /\ EvalBuilt(ev["s1"])
    /\ ev["s1"].req.questionText = <<"p","i","e"," ","c","h","a","r","t">>
    /\ ev["s1"].req.documentUrl.s = <<"B",".","P","D","F">>
    /\ ev["s1"].messages = LenientTextOnly

Boolean(v) == v \in {"true", "false"}

C30_SubmitGuard ==
    /\ [][ /\ card.isSubmitting =>
                 /\ Len(answers') = Len(answers)
                 /\ card'.answerId = card.answerId
           /\ (card'.toast = "Submission failed" /\ card' # card) =>
                 card'.currentResult = card.currentResult ]_vars
    /\ [](card.pc = "idle" => ~card.isSubmitting)
    /\ (card.isSubmitting ~> ~card.isSubmitting)

\* a failed submission after a graded one: the flag is down, the result kept
C30_Witness ==
    /\ card.pc = "idle"
    /\ ~card.isSubmitting
    /\ card.toast = "Submission failed"
    /\ card.answerId = 2
    /\ card.currentResult.isCorrect = "true"

====
